---------------------------- MODULE Spec2Model ----------------------------
(***************************************************************************)
(* Model of common/map_data.py of the Xiaomi Cloud Map Extractor: the      *)
(* coordinate pipeline Point / ImageDimensions / ImageData and             *)
(* MapData.calibration().                                                  *)
(*                                                                         *)
(* Numbers.  Python ints are TLA+ integers.  Python floats are fixed-point *)
(* integers counting units of 1/Unit (Unit = 2^FracBits), so 1.0 is Unit   *)
(* and 0.5 is Half.  All float inputs are drawn from the half-unit grid    *)
(* and all scales from multiples of Half; on these values every product,   *)
(* sum and difference the code forms is a multiple of 1/Unit, so the       *)
(* fixed-point arithmetic is exact, as binary64 arithmetic is on the same  *)
(* (dyadic, small) values.  Rounding of binary64 on other values is not    *)
(* modelled.                                                               *)
(*                                                                         *)
(* Objects are records tagged by "type"; Python's None is the record None. *)
(***************************************************************************)
EXTENDS Integers, Sequences, FiniteSets, TLC

VARIABLES
    args,    \* arguments of the last ImageData(...) construction, or None
    image,   \* the ImageData that construction produced, or None
    pt,      \* a Point: the receiver of the Point operations
    dims,    \* the ImageDimensions handed to the Point operations
    res,     \* what the last operation returned (or raised)
    loop,    \* the locals of a running Point.rotated: alpha, w, h, x, y
    chain,   \* a caller chaining four rotated() calls
    md,      \* a MapData
    calls    \* calibration() calls made since md was last written

vars == <<args, image, pt, dims, res, loop, chain, md, calls>>

---------------------------------------------------------------------------
(* Bounds of the model *)

FracBits == 2
MaxCoord == 2
MaxSide == 2
MaxCalls == 2

Unit == 2 ^ FracBits
Half == Unit \div 2

None == [type |-> "None"]

---------------------------------------------------------------------------
(* Python arithmetic *)

\* A variant of int() that floors instead of truncating toward zero.
int_floor(v) == v \div Unit

\* int(v) of a float v: the integer part, truncated toward zero.
int(v) == IF v >= 0 THEN v \div Unit ELSE -((-v) \div Unit)

\* int(a / b) for an int or float quotient a / b, b > 0: truncated toward zero.
int_quot(a, b) == IF a >= 0 THEN a \div b ELSE -((-a) \div b)

\* float(n) of an int n.
float(n) == n * Unit

\* a * b of two floats.
fmul(a, b) == (a * b) \div Unit


---------------------------------------------------------------------------
(* class Point *)

\* An angle a (a float) as it is stored in Point.a; an unset angle is None.
Angle(a) == [type |-> "float", v |-> a]

Point(x, y, a) == [type |-> "Point", x |-> x, y |-> y, a |-> a]

\* Point.__eq__
Point_eq(self, other) ==
    other # None /\ self.x = other.x /\ self.y = other.y /\ self.a = other.a

---------------------------------------------------------------------------
(* class ImageDimensions *)

ImageDimensions(top, left, height, width, scale, rotation, img_transformation) ==
    [type |-> "ImageDimensions", top |-> top, left |-> left, height |-> height,
     width |-> width, scale |-> scale, rotation |-> rotation,
     img_transformation |-> img_transformation]

\* The callables handed in as img_transformation, by name.
Transforms == {"identity", "swap_xy"}

\* self.img_transformation(point)
img_transformation(self, point) ==
    IF self.img_transformation = "identity"
    THEN point
    ELSE Point(point.y, point.x, None)

\* A variant of ImageDimensions.to_img that forgets the "- 1" of the flip.
ImageDimensions_to_img_no_minus_one(self, point) ==
    LET p == img_transformation(self, point)
    IN  Point(fmul(p.x - float(self.left), self.scale),
              fmul(float(self.height) - (p.y - float(self.top)), self.scale),
              None)

\* ImageDimensions.to_img
ImageDimensions_to_img(self, point) ==
    LET p == img_transformation(self, point)
    IN  Point(fmul(p.x - float(self.left), self.scale),
              fmul(float(self.height) - (p.y - float(self.top)) - float(1), self.scale),
              None)

\* Point.to_img
to_img(self, image_dimensions) == ImageDimensions_to_img(image_dimensions, self)

---------------------------------------------------------------------------
(* Point.rotated: the locals on entry, one pass of the while loop, the loop *)

rotated_enter(self, image_dimensions) ==
    [alpha |-> image_dimensions.rotation,
     w |-> int(image_dimensions.width * image_dimensions.scale),
     h |-> int(image_dimensions.height * image_dimensions.scale),
     x |-> self.x,
     y |-> self.y]

\* A variant of the loop body that computes y = x - w.
rotated_body_sign(l) ==
    [alpha |-> l.alpha - 90, x |-> l.y, y |-> l.x - float(l.w), w |-> l.h, h |-> l.w]

\* A variant of the loop body that does not swap w and h.
rotated_body_noswap(l) ==
    [alpha |-> l.alpha - 90, x |-> l.y, y |-> float(l.w) - l.x, w |-> l.w, h |-> l.h]

\* The body of "while alpha > 0".
rotated_body(l) ==
    [alpha |-> l.alpha - 90, x |-> l.y, y |-> float(l.w) - l.x, w |-> l.h, h |-> l.w]

RECURSIVE rotated_loop(_)
rotated_loop(l) == IF l.alpha > 0 THEN rotated_loop(rotated_body(l)) ELSE l

\* Point.rotated
rotated(self, image_dimensions) ==
    LET l == rotated_loop(rotated_enter(self, image_dimensions))
    IN  Point(l.x, l.y, None)

\* Point.__mul__
Point_mul(self, other) == Point(self.x * other, self.y * other, self.a)

\* Point.__truediv__ (other # 0; a zero divisor raises ZeroDivisionError)
Point_truediv(self, other) == Point(self.x \div other, self.y \div other, self.a)

---------------------------------------------------------------------------
(* class ImageData *)

ImageConfig(trim_left, trim_right, trim_top, trim_bottom, scale, rotate) ==
    [trim |-> [left |-> trim_left, right |-> trim_right,
               top |-> trim_top, bottom |-> trim_bottom],
     scale |-> scale, rotate |-> rotate]

\* A variant of ImageData.__init__ that adds the top trim to the top offset.
ImageData_top_trim(size, top, left, height, width, image_config, img_trans) ==
    LET trim_left == int_quot(image_config.trim.left * width, 100)
        trim_right == int_quot(image_config.trim.right * width, 100)
        trim_top == int_quot(image_config.trim.top * height, 100)
        trim_bottom == int_quot(image_config.trim.bottom * height, 100)
    IN  [type |-> "ImageData",
         size |-> size,
         dimensions |-> ImageDimensions(top + trim_top, left + trim_left,
                                        height - trim_top - trim_bottom,
                                        width - trim_left - trim_right,
                                        image_config.scale, image_config.rotate,
                                        img_trans),
         is_empty |-> (height = 0 \/ width = 0)]

\* A variant of ImageData.__init__ that tests the trimmed size for emptiness.
ImageData_trimmed_empty(size, top, left, height, width, image_config, img_trans) ==
    LET trim_left == int_quot(image_config.trim.left * width, 100)
        trim_right == int_quot(image_config.trim.right * width, 100)
        trim_top == int_quot(image_config.trim.top * height, 100)
        trim_bottom == int_quot(image_config.trim.bottom * height, 100)
    IN  [type |-> "ImageData",
         size |-> size,
         dimensions |-> ImageDimensions(top + trim_bottom, left + trim_left,
                                        height - trim_top - trim_bottom,
                                        width - trim_left - trim_right,
                                        image_config.scale, image_config.rotate,
                                        img_trans),
         is_empty |-> (height - trim_top - trim_bottom = 0
                       \/ width - trim_left - trim_right = 0)]

\* ImageData.__init__ (the raster data and the additional layers are not read by
\* any operation modelled here and are left out).
ImageData(size, top, left, height, width, image_config, img_trans) ==
    LET trim_left == int_quot(image_config.trim.left * width, 100)
        trim_right == int_quot(image_config.trim.right * width, 100)
        trim_top == int_quot(image_config.trim.top * height, 100)
        trim_bottom == int_quot(image_config.trim.bottom * height, 100)
    IN  [type |-> "ImageData",
         size |-> size,
         dimensions |-> ImageDimensions(top + trim_bottom, left + trim_left,
                                        height - trim_top - trim_bottom,
                                        width - trim_left - trim_right,
                                        image_config.scale, image_config.rotate,
                                        img_trans),
         is_empty |-> (height = 0 \/ width = 0)]

\* The arguments of a construction, kept beside the object it built.
Args(via, size, top, left, height, width, image_config, img_trans) ==
    [type |-> "args", via |-> via, size |-> size, top |-> top, left |-> left,
     height |-> height, width |-> width, image_config |-> image_config,
     img_transformation |-> img_trans]

ImageData_of(a) ==
    ImageData(a.size, a.top, a.left, a.height, a.width, a.image_config,
              a.img_transformation)

\* The arguments ImageData.create_empty passes on.
create_empty_args ==
    Args("create_empty", 0, 0, 0, 0, 0, ImageConfig(0, 0, 0, 0, float(1), 0), "identity")

\* ImageData.create_empty
create_empty == ImageData_of(create_empty_args)

---------------------------------------------------------------------------
(* What a call hands back: a returned value or a raised exception *)

Return(op, val) == [type |-> "return", op |-> op, val |-> val]

Raise(op, exc) == [type |-> "raise", op |-> op, exc |-> exc]

List(items) == [type |-> "list", items |-> items]

---------------------------------------------------------------------------
(* class MapData *)

\* MapData.__init__: every field but the two calibration values starts as None
\* (carpet_map as an empty list).  The fields calibration() never reads are
\* represented by vacuum_position.
MapData(calibration_center, calibration_diff) ==
    [type |-> "MapData",
     calibration_center |-> calibration_center,
     calibration_diff |-> calibration_diff,
     image |-> None,
     vacuum_position |-> None]

\* One entry of calibration_points, for the probe point and its image point.
calibration_point(point, img_point) ==
    [vacuum |-> [x |-> point.x, y |-> point.y],
     map |-> [x |-> int(img_point.x), y |-> int(img_point.y)]]

\* The three probe points of MapData.calibration, in the order of the for loop.
calibration_probes(self) ==
    << Point(self.calibration_center, self.calibration_center, None),
       Point(self.calibration_center + self.calibration_diff,
             self.calibration_center, None),
       Point(self.calibration_center,
             self.calibration_center + self.calibration_diff, None) >>

\* MapData.calibration.  self.image.is_empty on an image that is None raises
\* AttributeError.
calibration(self) ==
    IF self.image = None
    THEN Raise("calibration", "AttributeError")
    ELSE IF self.image.is_empty
    THEN Return("calibration", None)
    ELSE LET probes == calibration_probes(self)
             entry(i) ==
                 calibration_point(
                     probes[i],
                     rotated(to_img(probes[i], self.image.dimensions),
                             self.image.dimensions))
         IN  Return("calibration", List([i \in 1..3 |-> entry(i)]))

---------------------------------------------------------------------------
(* The inputs the operations are run on *)

Offsets == {0, 1}
Sides == {2 * k : k \in 0..MaxSide}
Percents == {0, 25, 50}
Scales == {Half, Unit, Unit + Half}
Rotations == {0, 90, 180, 270}

\* Raw image geometry and configurations handed to ImageData(...).
ImageArgs ==
    { Args("ImageData", h * w, t, l, h, w, ImageConfig(tl, tr, tt, tb, s, r), f) :
        t \in Offsets, l \in Offsets, h \in Sides, w \in Sides,
        tl \in Percents, tr \in Percents, tt \in Percents, tb \in Percents,
        s \in Scales, r \in Rotations, f \in Transforms }

---------------------------------------------------------------------------
(* SpecImage: one ImageData is built, by the constructor or by create_empty *)

InitImage ==
    /\ args = None
    /\ image = None
    /\ pt = None
    /\ dims = None
    /\ res = None
    /\ loop = None
    /\ chain = None
    /\ md = None
    /\ calls = None

NewImageData ==
    /\ args = None
    /\ \E a \in ImageArgs :
          /\ args' = a
          /\ image' = ImageData_of(a)
    /\ UNCHANGED <<pt, dims, res, loop, chain, md, calls>>

CreateEmpty ==
    /\ args = None
    /\ args' = create_empty_args
    /\ image' = create_empty
    /\ UNCHANGED <<pt, dims, res, loop, chain, md, calls>>

NextImage == NewImageData \/ CreateEmpty

SpecImage == InitImage /\ [][NextImage]_vars

\* q = floor(n / m), for m > 0
IsFloorOf(q, n, m) == q * m <= n /\ n < (q + 1) * m

(* C4: the dimensions of a constructed ImageData are the raw geometry trimmed
   by trim_X = floor(side * trim.X / 100): top = top + trim_bottom (the bottom
   trim), left = left + trim_left, height = height - trim_top - trim_bottom,
   width = width - trim_left - trim_right, scale and rotation as configured. *)
C4_TrimmedDimensions ==
    image # None =>
        LET d == image.dimensions
            c == args.image_config
            trim_bottom == d.top - args.top
            trim_left == d.left - args.left
            trim_top == args.height - trim_bottom - d.height
            trim_right == args.width - trim_left - d.width
        IN  /\ IsFloorOf(trim_left, args.width * c.trim.left, 100)
            /\ IsFloorOf(trim_right, args.width * c.trim.right, 100)
            /\ IsFloorOf(trim_top, args.height * c.trim.top, 100)
            /\ IsFloorOf(trim_bottom, args.height * c.trim.bottom, 100)
            /\ d.scale = c.scale
            /\ d.rotation = c.rotate

\* A construction whose top and bottom trims differ and whose left trim is
\* the floor of a fraction.
C4_Witness ==
    /\ image # None
    /\ args.via = "ImageData"
    /\ image.dimensions.top = args.top + 1
    /\ args.image_config.trim.top = 0
    /\ (args.width * args.image_config.trim.left) % 100 # 0

(* C5: is_empty is true exactly when the raw height or the raw width is 0,
   whatever the configuration; create_empty yields an empty image with
   all-zero dimensions, scale 1 and rotation 0. *)
C5_EmptyIffRawZero ==
    image # None =>
        /\ image.is_empty <=> (args.height = 0 \/ args.width = 0)
        /\ args.via = "create_empty" =>
              /\ image.is_empty
              /\ image.dimensions.top = 0
              /\ image.dimensions.left = 0
              /\ image.dimensions.height = 0
              /\ image.dimensions.width = 0
              /\ image.dimensions.scale = float(1)
              /\ image.dimensions.rotation = 0

\* An image of non-zero raw size trimmed down to height 0, and not empty.
C5_Witness ==
    /\ image # None
    /\ args.height # 0
    /\ args.width # 0
    /\ image.dimensions.height = 0
    /\ ~image.is_empty

---------------------------------------------------------------------------
(* SpecPoint: the Point operations on one point and one ImageDimensions *)

\* Float coordinates: the half-unit grid from -1.0 to MaxCoord.
Coords == {k * Half : k \in -2..(2 * MaxCoord)}

Angles == {None, Angle(float(90))}

Points == {Point(x, y, a) : x \in Coords, y \in Coords, a \in Angles}

Dimensions ==
    { ImageDimensions(t, l, h, w, s, r, f) :
        t \in Offsets, l \in Offsets, h \in 1..MaxSide, w \in 1..MaxSide,
        s \in Scales, r \in Rotations, f \in Transforms }

\* The scalars a point is multiplied and divided by.
Scalars == {0, 2}

InitPoint ==
    /\ pt \in Points
    /\ dims \in Dimensions
    /\ res = None
    /\ args = None
    /\ image = None
    /\ loop = None
    /\ chain = None
    /\ md = None
    /\ calls = None

\* pt.to_img(dims)
ToImg ==
    /\ res' = Return("to_img", to_img(pt, dims))
    /\ UNCHANGED <<args, image, pt, dims, loop, chain, md, calls>>

\* pt.rotated(dims)
Rotated ==
    /\ res' = Return("rotated", rotated(pt, dims))
    /\ UNCHANGED <<args, image, pt, dims, loop, chain, md, calls>>

\* pt * other
Mul ==
    /\ \E other \in Scalars : res' = Return("mul", Point_mul(pt, other))
    /\ UNCHANGED <<args, image, pt, dims, loop, chain, md, calls>>

\* pt / other
TrueDiv ==
    /\ \E other \in Scalars :
          res' = IF other = 0
                 THEN Raise("truediv", "ZeroDivisionError")
                 ELSE Return("truediv", Point_truediv(pt, other))
    /\ UNCHANGED <<args, image, pt, dims, loop, chain, md, calls>>

NextPoint == ToImg \/ Rotated \/ Mul \/ TrueDiv

SpecPoint == InitPoint /\ [][NextPoint]_vars

IsIdentityDimensions(d) ==
    /\ d.top = 0
    /\ d.left = 0
    /\ d.scale = float(1)
    /\ d.rotation = 0
    /\ d.img_transformation = "identity"

(* C2: p.to_img(d) applies d's transform to p, giving t, and returns the
   point x = (t.x - left) * scale, y = (height - (t.y - top) - 1) * scale,
   whatever the rotation; for identity dimensions that is
   Point(p.x, height - p.y - 1). *)
C2_ToImgFormula ==
    (res # None /\ res.op = "to_img") =>
        LET t == IF dims.img_transformation = "swap_xy"
                 THEN [x |-> pt.y, y |-> pt.x]
                 ELSE [x |-> pt.x, y |-> pt.y]
            v == res.val
        IN  /\ res.type = "return"
            /\ v.type = "Point"
            /\ v.a = None
            /\ v.x * Unit = (t.x - dims.left * Unit) * dims.scale
            /\ v.y * Unit =
                 (dims.height * Unit - (t.y - dims.top * Unit) - Unit) * dims.scale
            /\ IsIdentityDimensions(dims) =>
                  Point_eq(v, Point(pt.x, dims.height * Unit - pt.y - Unit, None))

\* to_img has run with a transform that is not the identity, non-zero
\* offsets, a fractional scale and a rotation.
C2_Witness ==
    /\ res # None
    /\ res.op = "to_img"
    /\ dims.img_transformation = "swap_xy"
    /\ dims.top = 1
    /\ dims.left = 1
    /\ dims.scale = Half
    /\ dims.rotation = 90
    /\ pt.x # pt.y

\* The size of the rotated image: width and height trade places at 90 and 270.
ScaledWidth(d) == int(d.width * d.scale)
ScaledHeight(d) == int(d.height * d.scale)
RotatedWidth(d) == IF d.rotation \in {90, 270} THEN ScaledHeight(d) ELSE ScaledWidth(d)
RotatedHeight(d) == IF d.rotation \in {90, 270} THEN ScaledWidth(d) ELSE ScaledHeight(d)

\* pt is an integer pixel of the scaled image of dims.
IsPixel(p, d) ==
    /\ p.x % Unit = 0
    /\ p.y % Unit = 0
    /\ 0 <= p.x
    /\ p.x < float(ScaledWidth(d))
    /\ 0 <= p.y
    /\ p.y < float(ScaledHeight(d))

(* C10, as stated: rotated maps every integer pixel (x, y), 0 <= x < W,
   0 <= y < H, to a point with 0 <= x' < W' and 0 <= y' < H'. *)
C10_PixelStaysInside ==
    (res # None /\ res.op = "rotated" /\ IsPixel(pt, dims)) =>
        /\ 0 <= res.val.x
        /\ res.val.x < float(RotatedWidth(dims))
        /\ 0 <= res.val.y
        /\ res.val.y < float(RotatedHeight(dims))

(* C10, amended: rotated maps every integer pixel (x, y), 0 <= x < W,
   0 <= y < H, to a point with 0 <= x' <= W' and 0 <= y' <= H'. *)
C10_PixelWithinClosedBounds ==
    (res # None /\ res.op = "rotated" /\ IsPixel(pt, dims)) =>
        /\ 0 <= res.val.x
        /\ res.val.x <= float(RotatedWidth(dims))
        /\ 0 <= res.val.y
        /\ res.val.y <= float(RotatedHeight(dims))

\* A pixel of the first column rotated by 90 degrees lands on y' = H'.
C10_Witness ==
    /\ res # None
    /\ res.op = "rotated"
    /\ IsPixel(pt, dims)
    /\ dims.rotation = 90
    /\ ScaledWidth(dims) # ScaledHeight(dims)
    /\ res.val.y = float(RotatedHeight(dims))

---------------------------------------------------------------------------
(* SpecRotated: Point.rotated run one pass of its while loop at a time *)

\* The frame of a running rotated(): its locals l, the locals before the last
\* pass (prev), the passes made (steps), and whether it has returned.
Frame(pc, steps, prev, l) ==
    [type |-> "frame", pc |-> pc, steps |-> steps, prev |-> prev, l |-> l]

InitRotated ==
    /\ pt \in Points
    /\ dims \in Dimensions
    /\ res = None
    /\ loop = None
    /\ args = None
    /\ image = None
    /\ chain = None
    /\ md = None
    /\ calls = None

\* lines 44-48: the locals are set
RotatedEnter ==
    /\ loop = None
    /\ loop' = Frame("while", 0, None, rotated_enter(pt, dims))
    /\ UNCHANGED <<args, image, pt, dims, res, chain, md, calls>>

\* lines 49-56: one pass of the loop
RotatedPass ==
    /\ loop # None
    /\ loop.pc = "while"
    /\ loop.l.alpha > 0
    /\ loop' = Frame("while", loop.steps + 1, loop.l, rotated_body(loop.l))
    /\ UNCHANGED <<args, image, pt, dims, res, chain, md, calls>>

\* line 57: the loop is left and Point(x, y) returned
RotatedReturn ==
    /\ loop # None
    /\ loop.pc = "while"
    /\ ~(loop.l.alpha > 0)
    /\ loop' = Frame("return", loop.steps, loop.prev, loop.l)
    /\ res' = Return("rotated", Point(loop.l.x, loop.l.y, None))
    /\ UNCHANGED <<args, image, pt, dims, chain, md, calls>>

NextRotated == RotatedEnter \/ RotatedPass \/ RotatedReturn

SpecRotated == InitRotated /\ [][NextRotated]_vars

\* The closed form of the rotation of (x, y) in a w by h image.
RotatedClosedForm(x, y, w, h, rotation) ==
    CASE rotation = 0 -> [x |-> x, y |-> y]
      [] rotation = 90 -> [x |-> y, y |-> w - x]
      [] rotation = 180 -> [x |-> w - x, y |-> h - y]
      [] rotation = 270 -> [x |-> h - y, y |-> x]

(* C3: for rotation in {0, 90, 180, 270} rotated starts from
   w = int(width*scale), h = int(height*scale), each pass maps (x, y, w, h)
   to (y, w - x, h, w), it returns after exactly rotation/90 passes, and the
   point returned is the closed form: (x, y), (y, w - x), (w - x, h - y),
   (h - y, x); rotation 0 is the identity on (x, y). *)
C3_RotatedLoopIsClosedForm ==
    loop # None =>
        LET W == Unit * ((dims.width * dims.scale) \div Unit)
            H == Unit * ((dims.height * dims.scale) \div Unit)
        IN  /\ loop.steps * 90 + loop.l.alpha = dims.rotation
            /\ loop.steps = 0 =>
                  /\ loop.l.x = pt.x
                  /\ loop.l.y = pt.y
                  /\ loop.l.w * Unit = W
                  /\ loop.l.h * Unit = H
            /\ loop.prev # None =>
                  /\ loop.l.x = loop.prev.y
                  /\ loop.l.y = loop.prev.w * Unit - loop.prev.x
                  /\ loop.l.w = loop.prev.h
                  /\ loop.l.h = loop.prev.w
            /\ loop.pc = "while" => (ENABLED RotatedPass \/ ENABLED RotatedReturn)
            /\ loop.pc = "return" =>
                  LET c == RotatedClosedForm(pt.x, pt.y, W, H, dims.rotation)
                  IN  /\ loop.steps * 90 = dims.rotation
                      /\ res = Return("rotated", Point(c.x, c.y, None))
                      /\ dims.rotation = 0 => (res.val.x = pt.x /\ res.val.y = pt.y)

\* rotated has returned after three passes on an image that is not square.
C3_Witness ==
    /\ loop # None
    /\ loop.pc = "return"
    /\ loop.steps = 3
    /\ loop.l.w # loop.l.h
    /\ pt.x # pt.y

---------------------------------------------------------------------------
(* SpecChain: a caller applies rotated with rotation 90 four times, each call
   on the previous result, with width and height traded between the calls *)

ChainPoints == {p \in Points : p.a = None}

ChainDimensions == {d \in Dimensions : d.rotation = 90}

\* The dimensions of the next call: width and height trade places.
Swapped(d) ==
    ImageDimensions(d.top, d.left, d.width, d.height, d.scale, d.rotation,
                    d.img_transformation)

Chain(n, p, d) == [type |-> "chain", n |-> n, p |-> p, d |-> d]

InitChain ==
    /\ pt \in ChainPoints
    /\ dims \in ChainDimensions
    /\ chain = Chain(0, pt, dims)
    /\ res = None
    /\ loop = None
    /\ args = None
    /\ image = None
    /\ md = None
    /\ calls = None

\* the next of the four calls: chain.p.rotated(chain.d)
ChainRotated ==
    /\ chain.n < 4
    /\ chain' = Chain(chain.n + 1, rotated(chain.p, chain.d), Swapped(chain.d))
    /\ UNCHANGED <<args, image, pt, dims, res, loop, md, calls>>

NextChain == ChainRotated

SpecChain == InitChain /\ [][NextChain]_vars

IsSquare(d) == ScaledWidth(d) = ScaledHeight(d)

\* The result of the four chained calls on p, starting with dimensions d.
ChainOfFour(p, d) ==
    rotated(rotated(rotated(rotated(p, d), Swapped(d)), d), Swapped(d))

(* C7: on a square image (int(width*scale) = int(height*scale)) the four
   chained calls of rotated with rotation 90 return a point equal to p. *)
C7_SquareRoundTrip ==
    (chain.n = 4 /\ IsSquare(dims)) => Point_eq(chain.p, pt)

\* The four calls have been made on a square image of non-zero size.
C7_Witness ==
    /\ chain.n = 4
    /\ IsSquare(dims)
    /\ ScaledWidth(dims) > 0
    /\ pt.x # pt.y

(* C8, as stated: there are dimensions that are not square and a point p for
   which the four chained calls return a point different from p (looked for,
   once a chain has been run, among all the chains the caller can run). *)
C8_NonSquareDoesNotRoundTrip ==
    chain.n = 4 =>
        \E p \in ChainPoints, d \in ChainDimensions :
            /\ ~IsSquare(d)
            /\ ~Point_eq(ChainOfFour(p, d), p)

(* C8, amended: on an image that is not square the four chained calls return
   a point equal to p as well. *)
C8_NonSquareRoundTrip ==
    (chain.n = 4 /\ ~IsSquare(dims)) => Point_eq(chain.p, pt)

\* The four calls have been made on an image that is not square.
C8_Witness ==
    /\ chain.n = 4
    /\ ~IsSquare(dims)
    /\ ScaledWidth(dims) > 0
    /\ ScaledHeight(dims) > 0
    /\ pt.x # pt.y

---------------------------------------------------------------------------
(* Spec: the life of one MapData.  It is constructed, the parser writes its
   fields one by one in any order, and at any moment in between and after a
   caller may ask for calibration() or convert the vacuum position. *)

Centers == {0, Half}
Diffs == {float(k) : k \in 0..MaxCoord}

MapTrims == {<<0, 0, 0, 0>>, <<25, 0, 0, 50>>}

\* Raw image geometry and configurations the parser builds the image from.
MapImageArgs ==
    { Args("ImageData", h * w, t, l, h, w,
           ImageConfig(tm[1], tm[2], tm[3], tm[4], s, r), f) :
        t \in Offsets, l \in Offsets, h \in Sides, w \in Sides,
        tm \in MapTrims, s \in Scales, r \in Rotations, f \in Transforms }

\* Positions of the vacuum the parser reads: a point with a heading.
MapPoints == {Point(float(1), Half, Angle(float(90)))}

Init ==
    /\ md \in {MapData(c, d) : c \in Centers, d \in Diffs}
    /\ res = None
    /\ calls = <<>>
    /\ args = None
    /\ image = None
    /\ pt = None
    /\ dims = None
    /\ loop = None
    /\ chain = None

\* the parser: map_data.image = ImageData(...)
SetImage ==
    /\ md.image = None
    /\ \E a \in MapImageArgs : md' = [md EXCEPT !.image = ImageData_of(a)]
    /\ res' = None
    /\ calls' = <<>>
    /\ UNCHANGED <<args, image, pt, dims, loop, chain>>

\* the parser: map_data.image = ImageData.create_empty(...)
SetEmptyImage ==
    /\ md.image = None
    /\ md' = [md EXCEPT !.image = create_empty]
    /\ res' = None
    /\ calls' = <<>>
    /\ UNCHANGED <<args, image, pt, dims, loop, chain>>

\* the parser: map_data.vacuum_position = Point(...)
SetVacuumPosition ==
    /\ md.vacuum_position = None
    /\ \E p \in MapPoints : md' = [md EXCEPT !.vacuum_position = p]
    /\ res' = None
    /\ calls' = <<>>
    /\ UNCHANGED <<args, image, pt, dims, loop, chain>>

\* map_data.calibration()
Calibration ==
    /\ Len(calls) < MaxCalls
    /\ res' = calibration(md)
    /\ calls' = Append(calls, calibration(md))
    /\ UNCHANGED <<args, image, pt, dims, loop, chain, md>>

\* map_data.vacuum_position.to_img(map_data.image.dimensions)
VacuumToImg ==
    /\ md.vacuum_position # None
    /\ md.image # None
    /\ res' = Return("to_img", to_img(md.vacuum_position, md.image.dimensions))
    /\ UNCHANGED <<args, image, pt, dims, loop, chain, md, calls>>

\* A variant of the rotated call that rotates the receiver in place.
VacuumRotated_in_place ==
    /\ md.vacuum_position # None
    /\ md.image # None
    /\ res' = Return("rotated", rotated(md.vacuum_position, md.image.dimensions))
    /\ md' = [md EXCEPT !.vacuum_position =
                 Point(res'.val.x, res'.val.y, md.vacuum_position.a)]
    /\ UNCHANGED <<args, image, pt, dims, loop, chain, calls>>

\* map_data.vacuum_position.rotated(map_data.image.dimensions)
VacuumRotated ==
    /\ md.vacuum_position # None
    /\ md.image # None
    /\ res' = Return("rotated", rotated(md.vacuum_position, md.image.dimensions))
    /\ UNCHANGED <<args, image, pt, dims, loop, chain, md, calls>>

\* map_data.vacuum_position * other
VacuumMul ==
    /\ md.vacuum_position # None
    /\ \E other \in Scalars : res' = Return("mul", Point_mul(md.vacuum_position, other))
    /\ UNCHANGED <<args, image, pt, dims, loop, chain, md, calls>>

\* map_data.vacuum_position / other
VacuumTrueDiv ==
    /\ md.vacuum_position # None
    /\ \E other \in Scalars :
          res' = IF other = 0
                 THEN Raise("truediv", "ZeroDivisionError")
                 ELSE Return("truediv", Point_truediv(md.vacuum_position, other))
    /\ UNCHANGED <<args, image, pt, dims, loop, chain, md, calls>>

Next ==
    \/ SetImage
    \/ SetEmptyImage
    \/ SetVacuumPosition
    \/ Calibration
    \/ VacuumToImg
    \/ VacuumRotated
    \/ VacuumMul
    \/ VacuumTrueDiv

Spec == Init /\ [][Next]_vars

\* m is the float v truncated toward zero to an integer.
IsTruncationOf(m, v) ==
    IF v >= 0
    THEN m * Unit <= v /\ v < (m + 1) * Unit
    ELSE (m - 1) * Unit < v /\ v <= m * Unit

\* The image point of the vacuum point (x, y): to_img, then rotated.
ImagePoint(x, y) ==
    rotated(to_img(Point(x, y, None), md.image.dimensions), md.image.dimensions)

(* C1: on a MapData whose image is set, calibration() returns None exactly
   when image.is_empty; otherwise three records, in this order, with vacuum
   (c, c), (c+d, c), (c, c+d) untruncated, and each map the image point
   rotated(to_img(p)) of its probe p truncated toward zero. *)
C1_CalibrationRecords ==
    (res # None /\ res.op = "calibration" /\ md.image # None) =>
        LET c == md.calibration_center
            d == md.calibration_diff
            vacuum == << [x |-> c, y |-> c], [x |-> c + d, y |-> c],
                         [x |-> c, y |-> c + d] >>
        IN  /\ res.type = "return"
            /\ (res.val = None) <=> md.image.is_empty
            /\ res.val # None =>
                  /\ res.val.type = "list"
                  /\ Len(res.val.items) = 3
                  /\ \A i \in 1..3 :
                        LET img == ImagePoint(vacuum[i].x, vacuum[i].y)
                            r == res.val.items[i]
                        IN  /\ r.vacuum = vacuum[i]
                            /\ IsTruncationOf(r.map.x, img.x)
                            /\ IsTruncationOf(r.map.y, img.y)

\* calibration() has returned three records, the probes all different, the
\* image rotated, and an image coordinate of one probe negative and fractional.
C1_Witness ==
    /\ res # None
    /\ res.op = "calibration"
    /\ md.image # None
    /\ ~md.image.is_empty
    /\ md.calibration_diff # 0
    /\ md.image.dimensions.rotation = 90
    /\ \E i \in 1..3 :
          LET p == calibration_probes(md)[i]
              img == ImagePoint(p.x, p.y)
          IN  (img.x < 0 /\ img.x % Unit # 0) \/ (img.y < 0 /\ img.y % Unit # 0)

(* C6, as stated: in every state of a MapData (fresh, partly written, fully
   written) calibration() completes without raising; it returns None or the
   three records, and None only when the image is empty. *)
C6_CalibrationNeverRaises ==
    (res # None /\ res.op = "calibration") =>
        /\ res.type = "return"
        /\ res.val = None => (md.image # None /\ md.image.is_empty)
        /\ res.val # None => Len(res.val.items) = 3

(* C9: no Point operation and no calibration() call changes the MapData, its
   ImageData, its ImageDimensions or the receiving point, and successive
   calibration() calls on an unmodified MapData return equal results. *)
C9_OperationsChangeNothing ==
    /\ [][res' # None => md' = md]_vars
    /\ [](\A i, j \in DOMAIN calls : calls[i] = calls[j])

\* Two calibration() calls in a row have returned the three records.
C9_Witness ==
    /\ Len(calls) >= 2
    /\ calls[2].type = "return"
    /\ calls[2].val # None
    /\ md.vacuum_position # None
    /\ res # None
    /\ res.op = "rotated"

==========================================================================
